---- MODULE Spec2Model ----
(***************************************************************************)
(* Model of the FPFool background script (src/javascripts/setup.js) and    *)
(* content script (src/javascripts/content.js).                            *)
(*                                                                         *)
(* Strings that the code inspects character by character (request          *)
(* initiators and request URLs) are sequences of one-character strings,    *)
(* indexed from 0 by the JavaScript helpers below exactly as in the code.  *)
(***************************************************************************)
EXTENDS Integers, Sequences, FiniteSets, TLC

VARIABLES
    thirdParties,          \* setup.js:37  Map, kept as insertion-ordered <<[key, val]>>
    queue,                 \* setup.js:42
    loopArmed,             \* a restartLoop timer is pending
    todayConnectionCount,  \* setup.js:76, 265
    connectionLimit,       \* setup.js:76
    observeCalls,          \* number of onBeforeRequest calls handled so far (saturating)
    request,               \* setup.js:52  the details (det) of the request handled last,
                           \* where the specification keeps them
    maxConnectCount,       \* the stored setting read at setup.js:95
    currentTabs,           \* setup.js:32
    poolInitialised,       \* the storage callback of setup.js:95-100 has run
    minusOneProp,          \* currentTabs has an own property "-1" (assignment at index -1)
    tabState,              \* browser tabs: "absent", "open" or "removed"
    pendingRemove,         \* chrome.tabs.remove callbacks not yet run, per tab
    handshakes,            \* isExec requests handled per tab while it is registered
    execReplies,           \* replies with isExec true, per tab, since it was registered
    lastResponse,          \* the request handled last by onMessage, and its response
    clickedLinksCount,     \* setup.js:163, 168
    keywordSearchCount,    \* setup.js:164, 171
    visitedSitesCount,     \* setup.js:165, 174
    storedStats,           \* the statistics held by chrome.storage.sync
    page,                  \* the position of the content script of each tab
    outbox,                \* messages a tab has sent that onMessage has not handled yet
    reported,              \* content.js:80, 100, 133, 145  the outcomes the pages of a
                           \* tab have reported through updateStatus, in order
    reply,                 \* the response the content script of a tab is about to receive
    tabUrl,                \* the origin a tab was opened at
    termStore,             \* the hosts with an entry in the searchTerms object store
    valueInScope           \* a global named value exists in the background page

obsVars == <<thirdParties, queue, loopArmed, todayConnectionCount, connectionLimit,
             observeCalls, request>>
poolVars == <<maxConnectCount, currentTabs, poolInitialised, minusOneProp, tabState,
              pendingRemove, handshakes, execReplies, lastResponse>>
statVars == <<clickedLinksCount, keywordSearchCount, visitedSitesCount, storedStats>>
pageVars == <<page, outbox, reported, reply, tabUrl, termStore, valueInScope>>
vars == <<obsVars, poolVars, statVars, pageVars>>

----------------------------------------------------------------------------
(* Bounds *)
MaxObserveCalls == 3
MaxLimit == 1
MaxPool == 2
MaxTabs == 2
MaxPending == 2
MaxCount == 2

----------------------------------------------------------------------------
(* JavaScript string helpers *)

Lower == {"a","b","c","d","e","f","g","h","i","j","k","l","m","n","o","p","q","r",
          "s","t","u","v","w","x","y","z"}

SetMin(S) == CHOOSE x \in S : \A y \in S : x <= y

\* String.prototype.indexOf / Array.prototype.indexOf on a contiguous pattern
IndexOf(s, sub) ==
    LET cands == {i \in 0..(Len(s) - Len(sub)) :
                     \A j \in 1..Len(sub) : s[i + j] = sub[j]}
    IN  IF cands = {} THEN -1 ELSE SetMin(cands)

\* String.prototype.includes
StrIncludes(s, sub) == IndexOf(s, sub) # -1

\* String.prototype.substring: clamps both ends to 0..length and swaps them
\* when start > end
Substring(s, a, b) ==
    LET clamp(x) == IF x < 0 THEN 0 ELSE IF x > Len(s) THEN Len(s) ELSE x
        lo == IF clamp(a) <= clamp(b) THEN clamp(a) ELSE clamp(b)
        hi == IF clamp(a) <= clamp(b) THEN clamp(b) ELSE clamp(a)
    IN  SubSeq(s, lo + 1, hi)

\* length of the match of /\.[a-z]{2,3}($|\/)/ anchored at 0-based index i, 0 if none
TldMatchLenAt(s, i) ==
    LET letter(k) == k <= Len(s) /\ s[k] \in Lower
        tail(k)   == k = Len(s) + 1 \/ (k <= Len(s) /\ s[k] = "/")
        tailLen(k) == IF k = Len(s) + 1 THEN 0 ELSE 1
    IN  IF ~(i + 1 <= Len(s) /\ s[i + 1] = ".") THEN 0
        ELSE IF letter(i + 2) /\ letter(i + 3) /\ letter(i + 4) /\ tail(i + 5)
             THEN 4 + tailLen(i + 5)
        ELSE IF letter(i + 2) /\ letter(i + 3) /\ tail(i + 4)
             THEN 3 + tailLen(i + 4)
        ELSE 0

\* det.initiator.match(/\.[a-z]{2,3}($|\/)/): the matched text urlExtension[0],
\* or <<>> for null
TldMatch(s) ==
    LET cands == {i \in 0..(Len(s) - 1) : TldMatchLenAt(s, i) > 0}
    IN  IF cands = {} THEN <<>>
        ELSE LET i == SetMin(cands) IN SubSeq(s, i + 1, i + TldMatchLenAt(s, i))

----------------------------------------------------------------------------
(* Request initiators and URLs the observer is driven with *)

Https == <<"h","t","t","p","s",":","/","/">>

Undefined == <<"undefined">>                                  \* det.initiator missing
OA == Https \o <<"w",".","a",".","c","o">>                    \* https://w.a.co
OB == Https \o <<"w",".","b",".","c","o">>                    \* https://w.b.co
OC == Https \o <<"w",".","a","b",".","c","o">>                \* https://w.ab.co
OD == Https \o <<"x",".","y",".","a",".","c","o">>            \* https://x.y.a.co
ON == Https \o <<"a",".","c","o">>                            \* https://a.co
OL == Https \o <<"l","h">>                                    \* https://lh

UT == Https \o <<"t",".","k",".","c","o","/","p">>            \* https://t.k.co/p
UA == Https \o <<"c",".","a",".","c","o","/","p">>            \* https://c.a.co/p

\* the labels of a host name, split at the dots
RECURSIVE Labels(_, _)
Labels(host, acc) ==
    IF host = <<>> THEN <<acc>>
    ELSE IF Head(host) = "." THEN <<acc>> \o Labels(Tail(host), <<>>)
    ELSE Labels(Tail(host), Append(acc, Head(host)))

\* the host of a URL or origin: what follows the scheme, up to the first slash
HostOf(s) ==
    LET rest == SubSeq(s, Len(Https) + 1, Len(s))
        cut  == IndexOf(rest, <<"/">>)
    IN  IF cut = -1 THEN rest ELSE SubSeq(rest, 1, cut)

\* the base domain: the label in front of the top-level domain
BaseDomain(s) ==
    LET l == Labels(HostOf(s), <<>>)
    IN  IF Len(l) >= 2 THEN l[Len(l) - 1] ELSE <<>>

Initiators == {Undefined, OA, OC, OD, ON, OL}
Urls == {UT, UA}
ResourceTypes == {"script", "image", "stylesheet"}

----------------------------------------------------------------------------
(* chrome.webRequest.onBeforeRequest listener *)

excludedTypes == {"stylesheet", "image"}

startInd(initiator) == IndexOf(initiator, <<".">>) + 1

endInd(initiator) ==
    LET urlExtension == TldMatch(initiator)
    IN  IF urlExtension # <<>> THEN IndexOf(initiator, urlExtension) ELSE -1

\* det.initiator.substring(startInd, endInd)
InitiatorDomain(initiator) == Substring(initiator, startInd(initiator), endInd(initiator))

\* mutant: the resource type is not looked at
IsThirdPartyRequestAnyType(det) ==
    /\ det.initiator # Undefined
    /\ endInd(det.initiator) > 0
    /\ ~StrIncludes(det.url, InitiatorDomain(det.initiator))

\* the guards of lines 54 and 60
IsThirdPartyRequest(det) ==
    /\ det.type \notin excludedTypes
    /\ det.initiator # Undefined
    /\ endInd(det.initiator) > 0
    /\ ~StrIncludes(det.url, InitiatorDomain(det.initiator))

MapHas(m, k) == \E i \in 1..Len(m) : m[i].key = k
MapGet(m, k) == m[CHOOSE i \in 1..Len(m) : m[i].key = k].val

\* Map.prototype.set keeps the position of an existing key
MapSet(m, k, v) ==
    IF MapHas(m, k)
    THEN [i \in 1..Len(m) |-> IF m[i].key = k THEN [key |-> k, val |-> v] ELSE m[i]]
    ELSE Append(m, [key |-> k, val |-> v])

SeqIncludes(s, x) == \E i \in 1..Len(s) : s[i] = x

\* lines 61-66
RecordThirdParty(m, det) ==
    LET val == IF MapHas(m, det.initiator) THEN MapGet(m, det.initiator) ELSE <<>>
    IN  MapSet(m, det.initiator,
               IF MapHas(m, det.initiator)
               THEN (IF SeqIncludes(val, det.url) THEN val ELSE Append(val, det.url))
               ELSE <<det.url>>)

\* mutant: the key is not compared with the requester's domain
ShouldEnqueueSelf(entry, domain, url, q) ==
    /\ SeqIncludes(entry.val, url)
    /\ ~SeqIncludes(q, entry.key)

\* mutant: the queue is not consulted before the push
ShouldEnqueueAgain(entry, domain, url, q) ==
    /\ ~StrIncludes(entry.key, domain)
    /\ SeqIncludes(entry.val, url)

\* the condition of lines 71-72 for one Map entry; domain is
\* det.initiator.substring(startInd, endInd)
ShouldEnqueue(entry, domain, url, q) ==
    /\ ~StrIncludes(entry.key, domain)
    /\ SeqIncludes(entry.val, url)
    /\ ~SeqIncludes(q, entry.key)

\* mutant: the loop is restarted whatever the daily limit
ShouldRestartAnyway(q, mayArm) == ~(Len(q) > 1)

\* line 76, evaluated after the push: mayArm is todayConnectionCount < connectionLimit
ShouldRestart(q, mayArm) == ~(Len(q) > 1) /\ mayArm

\* lines 70-80: the loop over the Map in insertion order, from entry i on.
\* st = [q |-> queue so far, armed |-> restartLoop has been called]
RECURSIVE CrossReference(_, _, _, _, _, _)
CrossReference(m, i, domain, url, st, mayArm) ==
    IF i > Len(m) THEN st
    ELSE IF ShouldEnqueue(m[i], domain, url, st.q)
         THEN LET q2 == Append(st.q, m[i].key)
              IN  CrossReference(m, i + 1, domain, url,
                      [q |-> q2, armed |-> st.armed \/ ShouldRestart(q2, mayArm)],
                      mayArm)
         ELSE CrossReference(m, i + 1, domain, url, st, mayArm)

Bump(n) == IF n < MaxObserveCalls THEN n + 1 ELSE n

\* lines 52-82 as a function of the state it reads:
\* [m |-> thirdParties, q |-> queue, armed |-> restartLoop was called]
ObserveResult(m, q, mayArm, det) ==
    IF IsThirdPartyRequest(det)
    THEN LET m2 == RecordThirdParty(m, det)
             r  == CrossReference(m2, 1, InitiatorDomain(det.initiator), det.url,
                                  [q |-> q, armed |-> FALSE], mayArm)
         IN  [m |-> m2, q |-> r.q, armed |-> r.armed]
    ELSE [m |-> m, q |-> q, armed |-> FALSE]

onBeforeRequest(det) ==
    LET r == ObserveResult(thirdParties, queue,
                           todayConnectionCount < connectionLimit, det)
    IN  /\ observeCalls' = Bump(observeCalls)
        /\ thirdParties' = r.m
        /\ queue' = r.q
        /\ loopArmed' = (loopArmed \/ r.armed)
        /\ UNCHANGED <<todayConnectionCount, connectionLimit>>
        /\ UNCHANGED <<poolVars, statVars, pageVars>>

Requests == [initiator : Initiators, url : Urls, type : ResourceTypes]

\* no request has been kept
NoRequest == [initiator |-> Undefined, url |-> UT, type |-> "image"]

Observe ==
    /\ \E det \in Requests : onBeforeRequest(det)
    /\ UNCHANGED request

\* the same call, with the details of the request kept
ObserveRequest ==
    \E det \in Requests :
        /\ onBeforeRequest(det)
        /\ request' = det

----------------------------------------------------------------------------
(* The session pool: currentTabs *)

TabIds == 1..MaxTabs
Algorithms == {"DEFAULT", "NAVIGATE", "SEARCH"}

EmptySlot == [id |-> -1]

\* Array.prototype.findIndex(elem => elem.id == id): 0-based, -1 if none
FindIndex(pool, id) ==
    LET hits == {i \in 1..Len(pool) : pool[i].id = id}
    IN  IF hits = {} THEN -1 ELSE SetMin(hits) - 1

InPool(t) == FindIndex(currentTabs, t) # -1

\* pool[idx] = v for an Array: an index below 0 creates a property and leaves the
\* elements and the length alone
ArrayAssign(pool, idx, v) ==
    IF idx >= 0 /\ idx < Len(pool) THEN [pool EXCEPT ![idx + 1] = v]
    ELSE IF idx >= Len(pool)
         THEN [i \in 1..(idx + 1) |-> IF i <= Len(pool) THEN pool[i]
                                       ELSE IF i = idx + 1 THEN v ELSE EmptySlot]
         ELSE pool

\* the history counters tell none, one and more than one apart
Saturate(n) == IF n < 2 THEN n + 1 ELSE n

\* sendResponse(body) for a request of the given type from tab t
Response(type, t, body) == [type |-> type, to |-> t, sent |-> TRUE, body |-> body]

\* the listener returned, or threw, without calling sendResponse
Unanswered(type, t) == [type |-> type, to |-> t, sent |-> FALSE, body |-> <<>>]

\* no request has been handled yet
NoResponse == Unanswered("none", 0)

\* response.f, with FALSE standing for undefined
Truthy(body, f) == f \in DOMAIN body /\ body[f] = TRUE

\* setup.js:95-100, the callback of chrome.storage.sync.get
PoolInit ==
    /\ ~poolInitialised
    /\ poolInitialised' = TRUE
    /\ currentTabs' = [i \in 1..maxConnectCount |-> EmptySlot]
    /\ minusOneProp' = FALSE
    /\ UNCHANGED <<maxConnectCount, tabState, pendingRemove, handshakes, execReplies,
                   lastResponse>>
    /\ UNCHANGED <<obsVars, statVars, pageVars>>

\* number of chrome.tabs.remove callbacks that have not run yet
RECURSIVE PendingTotal(_, _)
PendingTotal(p, n) == IF n = 0 THEN 0 ELSE p[n] + PendingTotal(p, n - 1)

\* mutant: the slot is reset inside the handler, before the acknowledgement
HandleDisconnectSync(t) ==
    /\ pendingRemove' = [pendingRemove EXCEPT ![t] = @ + 1]
    /\ currentTabs' = ArrayAssign(currentTabs, FindIndex(currentTabs, t), EmptySlot)
    /\ minusOneProp' = (minusOneProp \/ FindIndex(currentTabs, t) < 0)
    /\ lastResponse' = Response("disconnect", t, <<>>)
    /\ UNCHANGED <<maxConnectCount, poolInitialised, tabState, handshakes, execReplies>>
    /\ UNCHANGED <<obsVars, statVars>>

\* setup.js:126-132 and 197: the disconnect case of the onMessage listener
HandleDisconnect(t) ==
    /\ pendingRemove' = [pendingRemove EXCEPT ![t] = @ + 1]
    /\ lastResponse' = Response("disconnect", t, <<>>)
    /\ UNCHANGED <<maxConnectCount, currentTabs, poolInitialised, minusOneProp, tabState,
                   handshakes, execReplies>>
    /\ UNCHANGED <<obsVars, statVars>>

\* mutant: the callback resets the first slot, whichever tab was removed
ReleaseSlotFirst(pool, t) ==
    IF Len(pool) > 0 THEN [pool EXCEPT ![1] = EmptySlot] ELSE pool

\* mutant: the slot is spliced out of the array instead of being reset
ReleaseSlotSplice(pool, t) ==
    LET idx == FindIndex(pool, t)
    IN  IF idx = -1 THEN pool
        ELSE SubSeq(pool, 1, idx) \o SubSeq(pool, idx + 2, Len(pool))

\* mutant: a failed search (index -1) resets the last slot, as splice(-1, 1) would
ReleaseSlotWrap(pool, t) ==
    LET idx == FindIndex(pool, t)
    IN  IF idx = -1 /\ Len(pool) > 0 THEN [pool EXCEPT ![Len(pool)] = EmptySlot]
        ELSE ArrayAssign(pool, idx, EmptySlot)

\* setup.js:128-130, the body of the chrome.tabs.remove callback
ReleaseSlot(pool, t) == ArrayAssign(pool, FindIndex(pool, t), EmptySlot)

\* the content script of a tab ends with the tab
PageClosed(t) ==
    /\ page' = [page EXCEPT ![t] = "closed"]
    /\ reply' = [reply EXCEPT ![t] = NoResponse]
    /\ UNCHANGED <<outbox, reported, tabUrl, termStore, valueInScope>>

\* setup.js:127-131: the tab is gone and the callback of chrome.tabs.remove runs
RemoveCallback(t) ==
    /\ pendingRemove[t] > 0
    /\ pendingRemove' = [pendingRemove EXCEPT ![t] = @ - 1]
    /\ tabState' = [tabState EXCEPT ![t] = "removed"]
    /\ currentTabs' = ReleaseSlot(currentTabs, t)
    /\ minusOneProp' = (minusOneProp \/ FindIndex(currentTabs, t) < 0)
    /\ PageClosed(t)
    /\ UNCHANGED <<maxConnectCount, poolInitialised, handshakes, execReplies,
                   lastResponse>>
    /\ UNCHANGED <<obsVars, statVars>>

\* mutant: a tab that is in no slot is told to execute
IsExecResponseAny(pool, t) ==
    LET idx == FindIndex(pool, t)
    IN  IF idx # -1
        THEN [isExec |-> pool[idx + 1].isNew,
              algo |-> pool[idx + 1].algorithm,
              disconnect |-> ~pool[idx + 1].isNew]
        ELSE [isExec |-> TRUE, algo |-> "DEFAULT", disconnect |-> FALSE]

\* setup.js:176-184: the reply to an isExec request from tab t
IsExecResponse(pool, t) ==
    LET idx == FindIndex(pool, t)
    IN  IF idx # -1
        THEN [isExec |-> pool[idx + 1].isNew,
              algo |-> pool[idx + 1].algorithm,
              disconnect |-> ~pool[idx + 1].isNew]
        ELSE [isExec |-> FALSE]

\* mutant: the isNew flag is never cleared
MarkSeenNever(pool, t) == pool

\* setup.js:182: senderTab.isNew = false
MarkSeen(pool, t) ==
    LET idx == FindIndex(pool, t)
    IN  IF idx # -1 THEN [pool EXCEPT ![idx + 1].isNew = FALSE] ELSE pool

\* setup.js:176-184 and 197: the isExec case of the onMessage listener
HandleIsExec(t) ==
    /\ lastResponse' = Response("isExec", t, IsExecResponse(currentTabs, t))
    /\ currentTabs' = MarkSeen(currentTabs, t)
    /\ handshakes' = [handshakes EXCEPT ![t] = IF InPool(t) THEN Saturate(@) ELSE @]
    /\ execReplies' = [execReplies EXCEPT
                          ![t] = IF IsExecResponse(currentTabs, t).isExec
                                 THEN Saturate(@) ELSE @]
    /\ UNCHANGED <<maxConnectCount, poolInitialised, minusOneProp, tabState,
                   pendingRemove>>
    /\ UNCHANGED <<obsVars, statVars>>

----------------------------------------------------------------------------
(* Statistics and search terms: the remaining cases of the onMessage listener *)

IncTypes == {"incClickedLinksCount", "incKeywordSearchCount", "incVisitedSitesCount"}

StatsBody(c, k, v) ==
    [clickedLinksCount |-> c, keywordSearchCount |-> k, visitedSitesCount |-> v]

\* setup.js:162-166 and 197
HandleGetStatistics(t) ==
    /\ lastResponse' = Response("getStatistics", t,
                           StatsBody(clickedLinksCount, keywordSearchCount,
                                     visitedSitesCount))
    /\ UNCHANGED <<maxConnectCount, currentTabs, poolInitialised, minusOneProp, tabState,
                   pendingRemove, handshakes, execReplies>>
    /\ UNCHANGED <<obsVars, statVars>>

\* setup.js:167-175 and 197
HandleInc(type, t) ==
    /\ clickedLinksCount' =
           IF type = "incClickedLinksCount" THEN clickedLinksCount + 1
           ELSE clickedLinksCount
    /\ keywordSearchCount' =
           IF type = "incKeywordSearchCount" THEN keywordSearchCount + 1
           ELSE keywordSearchCount
    /\ visitedSitesCount' =
           IF type = "incVisitedSitesCount" THEN visitedSitesCount + 1
           ELSE visitedSitesCount
    /\ lastResponse' = Response(type, t, <<>>)
    /\ UNCHANGED <<maxConnectCount, currentTabs, poolInitialised, minusOneProp, tabState,
                   pendingRemove, handshakes, execReplies>>
    /\ UNCHANGED <<obsVars, storedStats>>

\* mutant: the chained assignment misses keywordSearchCount
HandleResetStatisticsPartial(t) ==
    /\ clickedLinksCount' = 0
    /\ visitedSitesCount' = 0
    /\ storedStats' = StatsBody(0, keywordSearchCount, 0)
    /\ lastResponse' = Response("resetStatistics", t, <<>>)
    /\ UNCHANGED <<maxConnectCount, currentTabs, poolInitialised, minusOneProp, tabState,
                   pendingRemove, handshakes, execReplies>>
    /\ UNCHANGED <<obsVars, keywordSearchCount>>

\* setup.js:185-192 and 197
HandleResetStatistics(t) ==
    /\ clickedLinksCount' = 0
    /\ keywordSearchCount' = 0
    /\ visitedSitesCount' = 0
    /\ storedStats' = StatsBody(0, 0, 0)
    /\ lastResponse' = Response("resetStatistics", t, <<>>)
    /\ UNCHANGED <<maxConnectCount, currentTabs, poolInitialised, minusOneProp, tabState,
                   pendingRemove, handshakes, execReplies>>
    /\ UNCHANGED obsVars

\* setup.js:133-161: getTheData() starts the lookup and returns a promise that is
\* dropped; line 156 then reads a variable named value, which is local to
\* getTheData.  In strict mode the read throws a ReferenceError and sendResponse is
\* not reached, unless another background script defines a global of that name;
\* the response then carries that global, never the result of the lookup.
HandleGetSearchTerm(t) ==
    /\ lastResponse' = IF valueInScope THEN Response("getSearchTerm", t, <<>>)
                       ELSE Unanswered("getSearchTerm", t)
    /\ UNCHANGED <<maxConnectCount, currentTabs, poolInitialised, minusOneProp, tabState,
                   pendingRemove, handshakes, execReplies>>
    /\ UNCHANGED <<obsVars, statVars>>

\* mutant: the default case breaks instead of returning
HandleUnknownAnswered(type, t) ==
    /\ lastResponse' = Response(type, t, <<>>)
    /\ UNCHANGED <<maxConnectCount, currentTabs, poolInitialised, minusOneProp, tabState,
                   pendingRemove, handshakes, execReplies>>
    /\ UNCHANGED <<obsVars, statVars>>

\* setup.js:193-194: any other request type
HandleUnknown(type, t) ==
    /\ lastResponse' = Unanswered(type, t)
    /\ UNCHANGED <<maxConnectCount, currentTabs, poolInitialised, minusOneProp, tabState,
                   pendingRemove, handshakes, execReplies>>
    /\ UNCHANGED <<obsVars, statVars>>

----------------------------------------------------------------------------
(* The control loop.  runApplication and restartLoop are referenced at        *)
(* setup.js:77 and 273 but defined outside the two source files; the loop is  *)
(* modelled from sections 4.3 and 4.4 of the specification.                   *)

FreeTabIds == {t \in TabIds : tabState[t] = "absent"}

\* SessionPool.tryAcquire: the first empty slot receives the new session
tryAcquire(pool, session) == ArrayAssign(pool, FindIndex(pool, -1), session)

CanDispatch ==
    /\ queue # <<>>
    /\ FindIndex(currentTabs, -1) # -1
    /\ todayConnectionCount < connectionLimit

DispatchWith(algos) ==
    /\ loopArmed
    /\ CanDispatch
    /\ FreeTabIds # {}
    /\ \E algo \in algos :
         LET t == SetMin(FreeTabIds)
         IN  /\ currentTabs' = tryAcquire(currentTabs,
                                   [id |-> t, isNew |-> TRUE, algorithm |-> algo])
             /\ tabState' = [tabState EXCEPT ![t] = "open"]
             /\ handshakes' = [handshakes EXCEPT ![t] = 0]
             /\ execReplies' = [execReplies EXCEPT ![t] = 0]
             /\ page' = [page EXCEPT ![t] = "loading"]
             /\ tabUrl' = [tabUrl EXCEPT ![t] = Head(queue)]
    /\ queue' = Tail(queue)
    /\ todayConnectionCount' = todayConnectionCount + 1
    /\ UNCHANGED <<thirdParties, loopArmed, connectionLimit, observeCalls, request>>
    /\ UNCHANGED <<maxConnectCount, poolInitialised, minusOneProp, pendingRemove,
                   lastResponse>>
    /\ UNCHANGED <<statVars, outbox, reported, reply, termStore, valueInScope>>

Dispatch == DispatchWith(Algorithms)

\* the observer does not depend on the algorithm a session runs
DispatchDefault == DispatchWith({"DEFAULT"})

\* the timer fires with nothing to dispatch: the loop re-arms while only the pool is
\* full and ends once the queue is empty or the daily limit is reached
LoopIdle ==
    /\ loopArmed
    /\ ~CanDispatch
    /\ loopArmed' = (queue # <<>> /\ todayConnectionCount < connectionLimit)
    /\ UNCHANGED <<thirdParties, queue, todayConnectionCount, connectionLimit, observeCalls,
                   request>>
    /\ UNCHANGED <<poolVars, statVars, pageVars>>

----------------------------------------------------------------------------
(* The browser and its user *)

\* a tab that the extension did not open
OpenUserTab ==
    /\ FreeTabIds # {}
    /\ tabState' = [tabState EXCEPT ![SetMin(FreeTabIds)] = "open"]
    /\ page' = [page EXCEPT ![SetMin(FreeTabIds)] = "loading"]
    /\ UNCHANGED <<maxConnectCount, currentTabs, poolInitialised, minusOneProp,
                   pendingRemove, handshakes, execReplies, lastResponse>>
    /\ UNCHANGED <<obsVars, statVars, outbox, reported, reply, tabUrl, termStore,
                   valueInScope>>

\* a tab is closed from outside; setup.js registers no chrome.tabs.onRemoved listener
CloseTab(t) ==
    /\ tabState[t] = "open"
    /\ tabState' = [tabState EXCEPT ![t] = "removed"]
    /\ PageClosed(t)
    /\ UNCHANGED <<maxConnectCount, currentTabs, poolInitialised, minusOneProp,
                   pendingRemove, handshakes, execReplies, lastResponse>>
    /\ UNCHANGED <<obsVars, statVars>>

----------------------------------------------------------------------------
(* Messages from any open tab: the listener is driven with every request    *)
(* type at every moment                                                     *)

OnDisconnect(t) ==
    /\ tabState[t] = "open"
    /\ PendingTotal(pendingRemove, MaxTabs) < MaxPending
    /\ HandleDisconnect(t)
    /\ UNCHANGED pageVars

OnIsExec(t) ==
    /\ tabState[t] = "open"
    /\ HandleIsExec(t)
    /\ UNCHANGED pageVars

OnGetStatistics(t) ==
    /\ tabState[t] = "open"
    /\ HandleGetStatistics(t)
    /\ UNCHANGED pageVars

CountOf(type) ==
    IF type = "incClickedLinksCount" THEN clickedLinksCount
    ELSE IF type = "incKeywordSearchCount" THEN keywordSearchCount
    ELSE visitedSitesCount

OnInc(type, t) ==
    /\ tabState[t] = "open"
    /\ CountOf(type) < MaxCount
    /\ HandleInc(type, t)
    /\ UNCHANGED pageVars

OnResetStatistics(t) ==
    /\ tabState[t] = "open"
    /\ HandleResetStatistics(t)
    /\ UNCHANGED pageVars

\* content.js:25, 33, 48, 80, 100, 135, 145, 207: the types content.js sends that the
\* switch of the listener has no case for
UnknownTypes ==
    {"resize", "isSpecial", "urlParams", "OPEN", "NAVIGATE", "SEARCH", "SEARCHFAIL", "REMOVE"}

OnUnknown(type, t) ==
    /\ tabState[t] = "open"
    /\ HandleUnknown(type, t)
    /\ UNCHANGED pageVars

----------------------------------------------------------------------------
(* The content script, content.js, running in every tab *)

Outcomes == {"NAVIGATE", "SEARCH", "SEARCHFAIL", "REMOVE"}

IsOutcome(type) == type \in Outcomes

\* chrome.runtime.sendMessage for each of the types, in order; the updateStatus
\* messages among them that carry an outcome are noted
Send(t, types) ==
    /\ outbox' = [outbox EXCEPT ![t] = @ \o types]
    /\ reported' = [reported EXCEPT ![t] = @ \o SelectSeq(types, IsOutcome)]

\* content.js:17-45: the document is ready; isSpecial and isExec are sent
DocumentReady(t) ==
    /\ tabState[t] = "open"
    /\ page[t] = "loading"
    /\ Send(t, <<"isSpecial", "isExec">>)
    /\ page' = [page EXCEPT ![t] = "awaitExec"]
    /\ UNCHANGED <<reply, tabUrl, termStore, valueInScope>>
    /\ UNCHANGED <<obsVars, poolVars, statVars>>

\* content.js:45-65: the callback of the isExec request.  navigatePage (91-98) picks
\* randomVisit at once, undefined on a page without anchors; searchPage (114-123)
\* sends getSearchTerm
IsExecCallback(t) ==
    /\ page[t] = "awaitExec"
    /\ reply[t].type = "isExec"
    /\ reply' = [reply EXCEPT ![t] = NoResponse]
    /\ IF Truthy(reply[t].body, "isExec")
       THEN \/ /\ reply[t].body.algo = "DEFAULT"
               /\ Send(t, <<"OPEN", "incVisitedSitesCount">>)
               /\ page' = [page EXCEPT ![t] = "timerDisconnect"]
            \/ /\ reply[t].body.algo = "NAVIGATE"
               /\ Send(t, <<"OPEN", "incVisitedSitesCount">>)
               /\ \E anchors \in BOOLEAN :
                    page' = [page EXCEPT ![t] = IF anchors THEN "timerNavigate"
                                                ELSE "timerNavigateUndefined"]
            \/ /\ reply[t].body.algo = "SEARCH"
               /\ Send(t, <<"OPEN", "incVisitedSitesCount", "getSearchTerm">>)
               /\ page' = [page EXCEPT ![t] = "awaitTerm"]
       ELSE /\ UNCHANGED <<outbox, reported>>
            /\ page' = [page EXCEPT ![t] = IF Truthy(reply[t].body, "disconnect")
                                           THEN "timerDisconnect" ELSE "done"]
    /\ UNCHANGED <<tabUrl, termStore, valueInScope>>
    /\ UNCHANGED <<obsVars, poolVars, statVars>>

\* content.js:53, 63, 146 and 75-77: the timer runs disconnect()
DisconnectTimer(t) ==
    /\ page[t] = "timerDisconnect"
    /\ Send(t, <<"disconnect">>)
    /\ page' = [page EXCEPT ![t] = "awaitAck"]
    /\ UNCHANGED <<reply, tabUrl, termStore, valueInScope>>
    /\ UNCHANGED <<obsVars, poolVars, statVars>>

\* content.js:78-82: the callback of the disconnect request
DisconnectCallback(t) ==
    /\ page[t] = "awaitAck"
    /\ reply[t].type = "disconnect"
    /\ reply' = [reply EXCEPT ![t] = NoResponse]
    /\ Send(t, <<"REMOVE">>)
    /\ page' = [page EXCEPT ![t] = "done"]
    /\ UNCHANGED <<tabUrl, termStore, valueInScope>>
    /\ UNCHANGED <<obsVars, poolVars, statVars>>

\* content.js:99-105: the timer of navigatePage; randomVisit.href throws when
\* randomVisit is undefined, otherwise the click loads another page in the tab
NavigateTimer(t) ==
    /\ \/ /\ page[t] = "timerNavigate"
          /\ Send(t, <<"NAVIGATE", "incClickedLinksCount", "incVisitedSitesCount">>)
          /\ page' = [page EXCEPT ![t] = "loading"]
       \/ /\ page[t] = "timerNavigateUndefined"
          /\ UNCHANGED <<outbox, reported>>
          /\ page' = [page EXCEPT ![t] = "error"]
    /\ UNCHANGED <<reply, tabUrl, termStore, valueInScope>>
    /\ UNCHANGED <<obsVars, poolVars, statVars>>

\* mutant: the failure branch reports SEARCHFAIL and the search is scheduled all the same
GetSearchTermCallbackBoth(t) ==
    /\ page[t] = "awaitTerm"
    /\ reply[t].type = "getSearchTerm"
    /\ reply' = [reply EXCEPT ![t] = NoResponse]
    /\ Send(t, <<"SEARCHFAIL">>)
    /\ page' = [page EXCEPT ![t] = "timerSearch"]
    /\ UNCHANGED <<tabUrl, termStore, valueInScope>>
    /\ UNCHANGED <<obsVars, poolVars, statVars>>

\* content.js:123-148: the callback of the getSearchTerm request.  Without a
\* response resp is undefined and reading resp.searchTerm throws, in the condition
\* or in the arguments of updateStatus.
GetSearchTermCallback(t) ==
    /\ page[t] = "awaitTerm"
    /\ reply[t].type = "getSearchTerm"
    /\ reply' = [reply EXCEPT ![t] = NoResponse]
    /\ IF ~reply[t].sent
       THEN /\ UNCHANGED <<outbox, reported>>
            /\ page' = [page EXCEPT ![t] = "error"]
       ELSE \E searchForm \in BOOLEAN :
              IF searchForm /\ ~("searchTerm" \in DOMAIN reply[t].body
                                 /\ reply[t].body.searchTerm = " ")
              THEN /\ UNCHANGED <<outbox, reported>>
                   /\ page' = [page EXCEPT ![t] = "timerSearch"]
              ELSE /\ Send(t, <<"SEARCHFAIL">>)
                   /\ page' = [page EXCEPT ![t] = "timerDisconnect"]
    /\ UNCHANGED <<tabUrl, termStore, valueInScope>>
    /\ UNCHANGED <<obsVars, poolVars, statVars>>

\* content.js:130-143: the timer of searchPage submits the form
SearchTimer(t) ==
    /\ page[t] = "timerSearch"
    /\ Send(t, <<"SEARCH", "incKeywordSearchCount", "incVisitedSitesCount">>)
    /\ page' = [page EXCEPT ![t] = "loading"]
    /\ UNCHANGED <<reply, tabUrl, termStore, valueInScope>>
    /\ UNCHANGED <<obsVars, poolVars, statVars>>

----------------------------------------------------------------------------
(* chrome.runtime.onMessage, setup.js:123-198, taking the oldest message of   *)
(* a tab; the response reaches the callback the content script passed         *)

Sent(t, type) == outbox[t] # <<>> /\ Head(outbox[t]) = type

Taken(t, answered) ==
    /\ outbox' = [outbox EXCEPT ![t] = Tail(@)]
    /\ reply' = IF answered /\ page[t] # "closed"
                THEN [reply EXCEPT ![t] = lastResponse'] ELSE reply
    /\ UNCHANGED <<page, reported, tabUrl, termStore, valueInScope>>

DeliverDisconnect(t) ==
    /\ Sent(t, "disconnect")
    /\ HandleDisconnect(t)
    /\ Taken(t, TRUE)

DeliverIsExec(t) ==
    /\ Sent(t, "isExec")
    /\ HandleIsExec(t)
    /\ Taken(t, TRUE)

DeliverGetSearchTerm(t) ==
    /\ Sent(t, "getSearchTerm")
    /\ HandleGetSearchTerm(t)
    /\ Taken(t, TRUE)

DeliverInc(t) ==
    /\ outbox[t] # <<>>
    /\ Head(outbox[t]) \in IncTypes
    /\ HandleInc(Head(outbox[t]), t)
    /\ Taken(t, FALSE)

StatusTypes == {"isSpecial", "OPEN", "NAVIGATE", "SEARCH", "SEARCHFAIL", "REMOVE"}

DeliverUnknown(t) ==
    /\ outbox[t] # <<>>
    /\ Head(outbox[t]) \in StatusTypes
    /\ HandleUnknown(Head(outbox[t]), t)
    /\ Taken(t, FALSE)

----------------------------------------------------------------------------
(* Specifications *)

InitObserver ==
    /\ thirdParties = <<>>
    /\ queue = <<>>
    /\ loopArmed = TRUE
    /\ todayConnectionCount = 0
    /\ observeCalls = 0
    /\ request = NoRequest

InitPool ==
    /\ currentTabs = <<>>
    /\ poolInitialised = FALSE
    /\ minusOneProp = FALSE
    /\ tabState = [t \in TabIds |-> "absent"]
    /\ pendingRemove = [t \in TabIds |-> 0]
    /\ handshakes = [t \in TabIds |-> 0]
    /\ execReplies = [t \in TabIds |-> 0]
    /\ lastResponse = NoResponse

InitStats ==
    /\ clickedLinksCount = 0
    /\ keywordSearchCount = 0
    /\ visitedSitesCount = 0
    /\ storedStats = [clickedLinksCount |-> 0, keywordSearchCount |-> 0,
                      visitedSitesCount |-> 0]

InitPages ==
    /\ page = [t \in TabIds |-> "none"]
    /\ outbox = [t \in TabIds |-> <<>>]
    /\ reported = [t \in TabIds |-> <<>>]
    /\ reply = [t \in TabIds |-> NoResponse]
    /\ tabUrl = [t \in TabIds |-> <<>>]
    /\ termStore = {}
    /\ valueInScope = FALSE

\* The pool is exercised from the state the observer is in after
\* https://w.a.co, https://w.b.co and again https://w.a.co have loaded the tracker
\* https://t.k.co/p: both sites are queued.
Script(i) == [initiator |-> i, url |-> UT, type |-> "script"]
Seen1 == ObserveResult(<<>>, <<>>, TRUE, Script(OA))
Seen2 == ObserveResult(Seen1.m, Seen1.q, TRUE, Script(OB))
Seen3 == ObserveResult(Seen2.m, Seen2.q, TRUE, Script(OA))

Init ==
    /\ thirdParties = Seen3.m
    /\ queue = Seen3.q
    /\ loopArmed = TRUE
    /\ todayConnectionCount = 0
    /\ observeCalls = MaxObserveCalls
    /\ request = NoRequest
    /\ InitPool
    /\ InitStats
    /\ InitPages
    /\ connectionLimit = MaxTabs
    /\ maxConnectCount = MaxPool

Next ==
    \/ PoolInit
    \/ Dispatch
    \/ LoopIdle
    \/ OpenUserTab
    \/ \E t \in TabIds : CloseTab(t)
    \/ \E t \in TabIds : OnDisconnect(t)
    \/ \E t \in TabIds : RemoveCallback(t)
    \/ \E t \in TabIds : OnIsExec(t)

Spec == Init /\ [][Next]_vars

\* callbacks and timers that are pending do run; messages and tab closures are up
\* to the pages and the user
FairSpec ==
    /\ Spec
    /\ WF_vars(PoolInit)
    /\ WF_vars(Dispatch)
    /\ WF_vars(LoopIdle)
    /\ \A t \in TabIds : WF_vars(RemoveCallback(t))

\* a pool of one slot, with https://w.a.co and https://w.b.co queued
InitSolePool ==
    /\ thirdParties = Seen3.m
    /\ queue = Seen3.q
    /\ loopArmed = TRUE
    /\ todayConnectionCount = 0
    /\ observeCalls = MaxObserveCalls
    /\ request = NoRequest
    /\ InitPool
    /\ InitStats
    /\ InitPages
    /\ connectionLimit = MaxTabs
    /\ maxConnectCount = 1

SpecSolePool == InitSolePool /\ [][Next]_vars

\* sessions and user tabs sending statistics increments and messages of the types
\* the listener does not know
NextMessages ==
    \/ PoolInit
    \/ Dispatch
    \/ LoopIdle
    \/ OpenUserTab
    \/ \E t \in TabIds, type \in IncTypes : OnInc(type, t)
    \/ \E t \in TabIds, type \in UnknownTypes : OnUnknown(type, t)

SpecMessages == Init /\ [][NextMessages]_vars

\* the statistics, driven by the pages and the options page; the counters start
\* from the values of the last run, in which at least one site was visited
InitStatistics ==
    /\ InitObserver
    /\ InitPool
    /\ InitPages
    /\ connectionLimit = MaxLimit
    /\ maxConnectCount = MaxPool
    /\ clickedLinksCount \in 0..1
    /\ keywordSearchCount \in 0..1
    /\ visitedSitesCount = 1
    /\ storedStats = StatsBody(clickedLinksCount, keywordSearchCount, visitedSitesCount)

NextStatistics ==
    \/ OpenUserTab
    \/ \E t \in TabIds : OnGetStatistics(t)
    \/ \E t \in TabIds, type \in IncTypes : OnInc(type, t)
    \/ \E t \in TabIds : OnResetStatistics(t)

SpecStatistics == InitStatistics /\ [][NextStatistics]_vars

\* the sessions as the content script runs them, with a daily limit of one
\* connection: the first queued site is opened and every message comes from content.js
InitSessions ==
    /\ thirdParties = Seen3.m
    /\ queue = Seen3.q
    /\ loopArmed = TRUE
    /\ todayConnectionCount = 0
    /\ observeCalls = MaxObserveCalls
    /\ request = NoRequest
    /\ InitPool
    /\ InitStats
    /\ page = [t \in TabIds |-> "none"]
    /\ outbox = [t \in TabIds |-> <<>>]
    /\ reported = [t \in TabIds |-> <<>>]
    /\ reply = [t \in TabIds |-> NoResponse]
    /\ tabUrl = [t \in TabIds |-> <<>>]
    /\ termStore \in {{}, {HostOf(OA)}}
    /\ valueInScope \in BOOLEAN
    /\ connectionLimit = 1
    /\ maxConnectCount = MaxPool

NextSessions ==
    \/ PoolInit
    \/ Dispatch
    \/ LoopIdle
    \/ OpenUserTab
    \/ \E t \in TabIds : CloseTab(t)
    \/ \E t \in TabIds : RemoveCallback(t)
    \/ \E t \in TabIds : DocumentReady(t)
    \/ \E t \in TabIds : IsExecCallback(t)
    \/ \E t \in TabIds : DisconnectTimer(t)
    \/ \E t \in TabIds : DisconnectCallback(t)
    \/ \E t \in TabIds : NavigateTimer(t)
    \/ \E t \in TabIds : GetSearchTermCallback(t)
    \/ \E t \in TabIds : SearchTimer(t)
    \/ \E t \in TabIds : DeliverDisconnect(t)
    \/ \E t \in TabIds : DeliverIsExec(t)
    \/ \E t \in TabIds : DeliverGetSearchTerm(t)
    \/ \E t \in TabIds : DeliverInc(t)
    \/ \E t \in TabIds : DeliverUnknown(t)

SpecSessions == InitSessions /\ [][NextSessions]_vars

\* every timer that was set fires, every callback that is due runs and every message
\* that was sent is handled; opening and closing tabs is up to the user
FairSessions ==
    /\ SpecSessions
    /\ WF_vars(PoolInit)
    /\ WF_vars(Dispatch)
    /\ WF_vars(LoopIdle)
    /\ \A t \in TabIds :
          /\ WF_vars(RemoveCallback(t))
          /\ WF_vars(DocumentReady(t))
          /\ WF_vars(IsExecCallback(t))
          /\ WF_vars(DisconnectTimer(t))
          /\ WF_vars(DisconnectCallback(t))
          /\ WF_vars(NavigateTimer(t))
          /\ WF_vars(GetSearchTermCallback(t))
          /\ WF_vars(SearchTimer(t))
          /\ WF_vars(DeliverDisconnect(t))
          /\ WF_vars(DeliverIsExec(t))
          /\ WF_vars(DeliverGetSearchTerm(t))
          /\ WF_vars(DeliverInc(t))
          /\ WF_vars(DeliverUnknown(t))

\* the observer with the full range of requests; every session the daily limit allows
\* finds a free slot
InitObserverSpec ==
    /\ InitObserver
    /\ InitPool
    /\ InitStats
    /\ InitPages
    /\ connectionLimit \in 0..MaxLimit
    /\ maxConnectCount = MaxPool

NextObserver ==
    \/ Observe
    \/ PoolInit
    \/ DispatchDefault
    \/ LoopIdle

SpecObserver == InitObserverSpec /\ [][NextObserver]_vars

\* the listener alone, with the request of each call kept; the control loop has
\* found the queue empty and stopped
InitRequests ==
    /\ thirdParties = <<>>
    /\ queue = <<>>
    /\ loopArmed = FALSE
    /\ todayConnectionCount = 0
    /\ observeCalls = 0
    /\ request = NoRequest
    /\ InitPool
    /\ InitStats
    /\ InitPages
    /\ connectionLimit = 1
    /\ maxConnectCount = MaxPool

NextRequests == ObserveRequest

SpecRequests == InitRequests /\ [][NextRequests]_vars
----------------------------------------------------------------------------
(* Properties of the session pool *)

Occupied == {i \in 1..Len(currentTabs) : currentTabs[i].id # -1}

\* C1: the number of slots that hold a session never exceeds maxConnectCount, and
\* once the pool is initialised its length stays maxConnectCount
PoolWithinCapacity ==
    /\ Cardinality(Occupied) <= maxConnectCount
    /\ poolInitialised => Len(currentTabs) = maxConnectCount

\* every slot holds a session while a disconnect of one of them is being processed
PoolFullWitness ==
    /\ poolInitialised
    /\ Cardinality(Occupied) = maxConnectCount
    /\ \E t \in TabIds : InPool(t) /\ pendingRemove[t] > 0

IsExecReplyTo(t) == lastResponse.type = "isExec" /\ lastResponse.to = t

\* C2: for a registered session the reply has isExec true for the first handshake
\* only; every later reply has isExec false and disconnect true
ExecuteExactlyOnce ==
    \A t \in TabIds :
        InPool(t) =>
            /\ execReplies[t] = (IF handshakes[t] = 0 THEN 0 ELSE 1)
            /\ (IsExecReplyTo(t) /\ handshakes[t] = 1) =>
                   (lastResponse.body.isExec /\ ~lastResponse.body.disconnect)
            /\ (IsExecReplyTo(t) /\ handshakes[t] = 2) =>
                   (~lastResponse.body.isExec /\ lastResponse.body.disconnect)

\* a registered session has just received the reply to a later handshake
LaterHandshakeWitness ==
    \E t \in TabIds : InPool(t) /\ handshakes[t] = 2 /\ IsExecReplyTo(t)

CallbackRan(t) == pendingRemove'[t] < pendingRemove[t]

\* C3: a tab-removal callback whose tab matches no slot leaves every slot as it
\* is, and any tab-removal callback leaves the pool as a single release of that
\* tab does: the tab in no slot, every other slot untouched
ReleaseIdempotent ==
    [][\A t \in TabIds :
          CallbackRan(t) =>
              /\ ~InPool(t) => currentTabs' = currentTabs
              /\ currentTabs' = [i \in 1..Len(currentTabs) |->
                                   IF currentTabs[i].id = t THEN EmptySlot
                                   ELSE currentTabs[i]]]_vars

\* the second of two callbacks for one registered tab has run, with no match, while
\* the other session stays registered
DoubleReleaseWitness ==
    \E t, u \in TabIds :
         /\ t # u
         /\ handshakes[t] > 0 /\ ~InPool(t) /\ pendingRemove[t] = 0
         /\ tabState[u] = "open" /\ InPool(u) /\ pendingRemove[u] = 0
         /\ minusOneProp

\* C4 as stated: once the disconnect of a tab has been acknowledged, the tab is in no
\* slot
AcknowledgedMeansReleased ==
    \A t \in TabIds :
        (lastResponse.type = "disconnect" /\ lastResponse.to = t /\ lastResponse.sent)
            => ~InPool(t)

HandlerRan(t) == pendingRemove'[t] > pendingRemove[t]

\* C4 as amended: the disconnect handler leaves the pool as it is, so the slot is
\* still occupied when the acknowledgement is sent; a slot is emptied only by a
\* tab-removal callback, and then no statistics increment of that tab is unhandled
ReleasedBeforeReacquired ==
    [][\A t \in TabIds :
          /\ HandlerRan(t) => currentTabs' = currentTabs
          /\ (InPool(t) /\ ~InPool(t)') =>
                 /\ CallbackRan(t)
                 /\ \A k \in 1..Len(outbox[t]) : outbox[t][k] \notin IncTypes
      ]_vars

\* a session that counted its visit has been released by the callback
ReleasedAfterAckWitness ==
    \E t \in TabIds :
        /\ execReplies[t] > 0 /\ ~InPool(t)
        /\ lastResponse = Response("disconnect", t, <<>>)
        /\ tabState[t] = "removed" /\ pendingRemove[t] = 0
        /\ visitedSitesCount > 0

Dispatched == todayConnectionCount' > todayConnectionCount

\* C12: with a pool of one slot, a site is dispatched only when every session
\* dispatched before it has left its slot and its tab is gone, and a session leaves
\* its slot only in the tab-removal callback that follows its own disconnect request
SoleSlotSerialised ==
    [][/\ Dispatched =>
             \A t \in TabIds :
                 tabUrl[t] # <<>> => (~InPool(t) /\ tabState[t] = "removed")
       /\ \A t \in TabIds : (InPool(t) /\ ~InPool(t)') => CallbackRan(t)
       /\ Cardinality({t \in TabIds : InPool(t)'}) <= 1
      ]_vars

\* the second site occupies the sole slot after the first session was released
SecondDispatchWitness ==
    /\ maxConnectCount = 1
    /\ todayConnectionCount = 2
    /\ \E t \in TabIds : InPool(t) /\ tabUrl[t] = OB

\* C5: the slot of a session whose tab has been closed is eventually reset to empty
ClosedTabReleased ==
    \A t \in TabIds : (tabState[t] = "removed" /\ InPool(t)) ~> ~InPool(t)
----------------------------------------------------------------------------
(* Properties of the observer *)

\* C6: the queue never holds an origin twice
QueueHasNoDuplicates ==
    \A i, j \in 1..Len(queue) : i # j => queue[i] # queue[j]

\* two origins are queued after an earlier one has been dequeued
QueueRefilledWitness == Len(queue) >= 2 /\ todayConnectionCount >= 1

\* the index after exactly observe(A, t) and observe(B, t) from the empty state, with
\* t recorded by both calls and nothing dequeued
AfterScenario(A, B, t) ==
    /\ observeCalls = 2
    /\ todayConnectionCount = 0
    /\ thirdParties = <<[key |-> A, val |-> <<t>>], [key |-> B, val |-> <<t>>]>>

ScenarioPairs ==
    {p \in Initiators \X Initiators :
        /\ p[1] # Undefined /\ p[2] # Undefined
        /\ BaseDomain(p[1]) # BaseDomain(p[2])}

\* C7 as stated: after observe(A, t) and observe(B, t) the queue holds B and not A
ScenarioQueuesLaterOrigin ==
    \A p \in ScenarioPairs, t \in Urls :
        AfterScenario(p[1], p[2], t) =>
            SeqIncludes(queue, p[2]) /\ ~SeqIncludes(queue, p[1])

\* C7 as amended: the queue does not hold B; it holds A exactly when the text of A
\* does not contain the domain the code extracts from B
ScenarioQueuesEarlierOrigin ==
    \A p \in ScenarioPairs, t \in Urls :
        AfterScenario(p[1], p[2], t) =>
            /\ ~SeqIncludes(queue, p[2])
            /\ SeqIncludes(queue, p[1]) <=> ~StrIncludes(p[1], InitiatorDomain(p[2]))

\* the scenario has run for two sites of different base domain and A is queued
ScenarioWitness ==
    \E p \in ScenarioPairs, t \in Urls :
         AfterScenario(p[1], p[2], t) /\ queue = <<p[1]>>

\* C13: with a daily limit of 0 no session is ever dispatched and no request
\* observed arms the loop; whatever the limit, the loop is armed by an observed
\* request only when the queue was empty before the push and todayConnectionCount
\* is below connectionLimit
NoDispatchAtLimitZero ==
    [][/\ connectionLimit = 0 =>
             /\ todayConnectionCount' = 0
             /\ \A t \in TabIds : tabState'[t] = "absent"
             /\ loopArmed' => loopArmed
       /\ (~loopArmed /\ loopArmed') =>
             /\ queue = <<>> /\ queue' # <<>>
             /\ todayConnectionCount < connectionLimit
      ]_vars

\* with a daily limit of 0 an origin is queued and the loop is not armed
QueuedAtLimitZeroWitness ==
    /\ connectionLimit = 0
    /\ queue # <<>>
    /\ ~loopArmed
    /\ poolInitialised

Endpoints(m, origin) == IF MapHas(m, origin) THEN MapGet(m, origin) ELSE <<>>

Origins(m) == {m[i].key : i \in 1..Len(m)}

\* C14: when a call has recorded u under R, every other origin of the index whose
\* base domain differs from that of R and whose endpoints include u is in the queue;
\* the call enqueues neither R nor an origin whose endpoints do not include u
SharersAreQueued ==
    [][LET R == request'.initiator
           u == request'.url
       IN  (request'.type \notin excludedTypes /\ SeqIncludes(Endpoints(thirdParties', R), u)) =>
               /\ \A O \in Origins(thirdParties) \ {R} :
                      (BaseDomain(O) # BaseDomain(R)
                          /\ SeqIncludes(Endpoints(thirdParties, O), u))
                      => SeqIncludes(queue', O)
               /\ \A k \in 1..Len(queue') :
                      ~SeqIncludes(queue, queue'[k]) =>
                          /\ queue'[k] # R
                          /\ SeqIncludes(Endpoints(thirdParties, queue'[k]), u)
      ]_vars

\* C15: a request of a type that is not excluded, from an origin with a base domain
\* to a URL of another base domain, leaves the URL among the endpoints of the origin;
\* no endpoint is held twice and no call removes an origin or an endpoint
IndexGainsEndpoint ==
    [][LET R == request'.initiator
           u == request'.url
       IN  /\ (/\ request'.type \notin excludedTypes
                /\ R # Undefined
                /\ BaseDomain(R) # <<>>
                /\ BaseDomain(u) # BaseDomain(R))
               => SeqIncludes(Endpoints(thirdParties', R), u)
           /\ \A i \in 1..Len(thirdParties') :
                  \A j, k \in 1..Len(thirdParties'[i].val) :
                      j # k => thirdParties'[i].val[j] # thirdParties'[i].val[k]
           /\ \A O \in Origins(thirdParties) :
                  /\ O \in Origins(thirdParties')
                  /\ \A j \in 1..Len(Endpoints(thirdParties, O)) :
                         SeqIncludes(Endpoints(thirdParties', O), Endpoints(thirdParties, O)[j])
      ]_vars

\* C16: a request without an initiator, from an initiator without a base domain, or
\* for an image or a stylesheet leaves the index and the queue as they are and does
\* not arm the loop
SkippedRequestsLeaveNoTrace ==
    [][(\/ request'.initiator = Undefined
        \/ BaseDomain(request'.initiator) = <<>>
        \/ request'.type \in {"image", "stylesheet"})
       => (thirdParties' = thirdParties /\ queue' = queue /\ loopArmed' = loopArmed)
      ]_vars

\* such a request was the last one handled, after the index had been filled
SkippedRequestWitness ==
    /\ thirdParties # <<>>
    /\ \/ request = [initiator |-> Undefined, url |-> UT, type |-> "script"]
       \/ request = [initiator |-> OL, url |-> UT, type |-> "script"]
       \/ request = [initiator |-> OC, url |-> UT, type |-> "stylesheet"]

\* C17: an origin that was dequeued, and opened in a tab, is never in the queue again
DequeuedNeverRequeued ==
    \A t \in TabIds : tabUrl[t] # <<>> => ~SeqIncludes(queue, tabUrl[t])

\* C8: no endpoint is recorded under an origin of the same base domain
NoFirstPartyRecorded ==
    \A i \in 1..Len(thirdParties) :
        \A j \in 1..Len(thirdParties[i].val) :
            BaseDomain(thirdParties[i].key) # BaseDomain(thirdParties[i].val[j])
----------------------------------------------------------------------------
(* Properties of the statistics *)

Counters == <<clickedLinksCount, keywordSearchCount, visitedSitesCount>>

\* a step in which the listener handled a request
HandledRequest == lastResponse' # lastResponse \/ Counters' # Counters

\* C9: away from resetStatistics no counter decreases, each inc* request adds one to
\* its own counter and leaves the other two, resetStatistics leaves (0,0,0), and the
\* getStatistics reply shows the counters as they are, (0,0,0) right after a reset
CountersMonotone ==
    [][HandledRequest =>
          /\ lastResponse'.type # "resetStatistics" =>
                 /\ clickedLinksCount' >= clickedLinksCount
                 /\ keywordSearchCount' >= keywordSearchCount
                 /\ visitedSitesCount' >= visitedSitesCount
          /\ lastResponse'.type = "incClickedLinksCount" =>
                 Counters' = <<clickedLinksCount + 1, keywordSearchCount, visitedSitesCount>>
          /\ lastResponse'.type = "incKeywordSearchCount" =>
                 Counters' = <<clickedLinksCount, keywordSearchCount + 1, visitedSitesCount>>
          /\ lastResponse'.type = "incVisitedSitesCount" =>
                 Counters' = <<clickedLinksCount, keywordSearchCount, visitedSitesCount + 1>>
          /\ lastResponse'.type = "resetStatistics" => Counters' = <<0, 0, 0>>
          /\ lastResponse'.type = "getStatistics" =>
                 /\ lastResponse'.sent
                 /\ lastResponse'.body = StatsBody(clickedLinksCount, keywordSearchCount,
                                                   visitedSitesCount)
                 /\ lastResponse.type = "resetStatistics" =>
                        lastResponse'.body = StatsBody(0, 0, 0)]_vars

\* getStatistics is answered with (0,0,0) after a reset has been stored
ResetThenReadWitness ==
    /\ lastResponse.type = "getStatistics"
    /\ lastResponse.body = StatsBody(0, 0, 0)
    /\ storedStats = StatsBody(0, 0, 0)

\* C18: a message of a type the listener has no case for gets no response and
\* leaves the pool, the three counters, the queue and the index as they are
UnknownTypesDropped ==
    [][(lastResponse' # lastResponse /\ lastResponse'.type \in UnknownTypes) =>
          /\ ~lastResponse'.sent
          /\ currentTabs' = currentTabs
          /\ Counters' = Counters
          /\ queue' = queue
          /\ thirdParties' = thirdParties
      ]_vars

\* a resize message was dropped while a session was registered, a site was queued
\* and a visit had been counted
ResizeDroppedWitness ==
    /\ lastResponse.type = "resize" /\ ~lastResponse.sent
    /\ Occupied # {}
    /\ queue # <<>>
    /\ visitedSitesCount > 0
----------------------------------------------------------------------------
(* Properties of the search-term lookup *)

StoredTerm == "term"

\* C10: every getSearchTerm request is answered with the stored term of the tab's
\* host, or with " " when the store has no entry; with an empty store the search
\* strategy neither submits a search nor stops without disconnecting
SearchTermResolved ==
    \A t \in TabIds :
        /\ (lastResponse.type = "getSearchTerm" /\ lastResponse.to = t) =>
               /\ lastResponse.sent
               /\ "searchTerm" \in DOMAIN lastResponse.body
               /\ lastResponse.body.searchTerm =
                      (IF HostOf(tabUrl[t]) \in termStore THEN StoredTerm ELSE " ")
        /\ (termStore = {} /\ InPool(t)
               /\ currentTabs[FindIndex(currentTabs, t) + 1].algorithm = "SEARCH") =>
               page[t] \notin {"timerSearch", "error"}
----------------------------------------------------------------------------
(* Properties of the content script *)

StrategyOutcomes == {"NAVIGATE", "SEARCH", "SEARCHFAIL"}

AlgorithmOf(t) == currentTabs[FindIndex(currentTabs, t) + 1].algorithm

\* C11 as stated: a session that was told to execute never has more than one
\* of NAVIGATE, SEARCH, SEARCHFAIL and REMOVE reported, and has exactly one reported
\* once its tab is gone
OneTerminalOutcome ==
    \A t \in TabIds :
        execReplies[t] > 0 =>
            /\ Len(reported[t]) <= 1
            /\ tabState[t] = "removed" => Len(reported[t]) = 1

\* C11 as amended: only a session that was told to execute reports outcomes; it
\* reports at most one of NAVIGATE, SEARCH and SEARCHFAIL, of its own algorithm and
\* none for the idle one, and after it at most one REMOVE, which is reported only
\* once the disconnect request has been handled
OutcomesPerSession ==
    \A t \in TabIds :
        /\ reported[t] # <<>> => execReplies[t] > 0
        /\ reported[t] \in {<<>>, <<"REMOVE">>}
                             \cup {<<o>> : o \in StrategyOutcomes}
                             \cup {<<o, "REMOVE">> : o \in StrategyOutcomes}
        /\ SeqIncludes(reported[t], "REMOVE") =>
               (pendingRemove[t] > 0 \/ tabState[t] = "removed")
        /\ InPool(t) =>
               /\ AlgorithmOf(t) = "DEFAULT" => reported[t] \in {<<>>, <<"REMOVE">>}
               /\ AlgorithmOf(t) = "NAVIGATE" =>
                      (reported[t] # <<>> => Head(reported[t]) = "NAVIGATE")
               /\ AlgorithmOf(t) = "SEARCH" =>
                      (reported[t] # <<>> => Head(reported[t]) \in {"SEARCH", "SEARCHFAIL"})

\* C19: a session that was told to execute eventually sends a disconnect request,
\* unless its tab is closed first
EventuallyDisconnects ==
    \A t \in TabIds :
        (execReplies[t] > 0 /\ tabState[t] = "open" /\ pendingRemove[t] = 0)
            ~> (page[t] = "awaitAck" \/ pendingRemove[t] > 0 \/ tabState[t] # "open")

\* the listener takes the isExec request of tab t in this step
HandshakeHandled(t) == Sent(t, "isExec") /\ outbox'[t] = Tail(outbox[t])

\* a tab the extension did not open: its worker has started no algorithm and has
\* sent nothing but the two requests of the document-ready handler
WorkerIdle(t) ==
    /\ page[t] \in {"none", "loading", "awaitExec", "done", "closed"}
    /\ \A k \in 1..Len(outbox[t]) : outbox[t][k] \in {"isSpecial", "isExec"}
    /\ pendingRemove[t] = 0
    /\ reported[t] = <<>>

\* C20: a handshake from a tab that is in no slot is answered with isExec false and
\* without a disconnect field and leaves the pool as it is; the worker of a tab that
\* the extension did not open runs no algorithm and sends neither a statistics
\* increment nor a disconnect request
UnregisteredTabStaysIdle ==
    [][\A t \in TabIds :
          /\ (HandshakeHandled(t) /\ ~InPool(t)) =>
                 /\ lastResponse' = Response("isExec", t, [isExec |-> FALSE])
                 /\ currentTabs' = currentTabs
          /\ tabUrl'[t] = <<>> => WorkerIdle(t)'
      ]_vars

\* the worker of a user tab has received its handshake reply while a session is
\* registered
UserTabHandshakeWitness ==
    \E t \in TabIds :
        /\ tabUrl[t] = <<>> /\ tabState[t] = "open" /\ page[t] = "done"
        /\ lastResponse = Response("isExec", t, [isExec |-> FALSE])
        /\ Occupied # {}

\* a session has reported SEARCHFAIL and then REMOVE, and its tab is gone
TwoOutcomesWitness ==
    \E t \in TabIds :
        reported[t] = <<"SEARCHFAIL", "REMOVE">> /\ tabState[t] = "removed"
====
